---- MODULE Spec2Model ----
(***************************************************************************)
(* Model of packages/cli/src/nonInteractiveCli.ts: the headless turn loop  *)
(* runNonInteractive with its helpers.  One action per stretch of code     *)
(* between two suspension points (await / for await): the model client,    *)
(* the tool dispatcher, the cancellation signal, the clock and the output  *)
(* pipe are the environment and are drawn from small sets.                 *)
(* Strings are sequences of tokens, so that concatenation and substring    *)
(* search are computed and not assumed.                                    *)
(***************************************************************************)
EXTENDS Integers, Sequences, FiniteSets, TLC

\* ------------------------------------------------------------------ bounds
\* largest configured maxSessionTurns tried (0 = unlimited)
MaxSessionTurnsBound == 2
\* chunks a response stream may carry
MaxChunks == 2
\* function calls accumulated in one turn
MaxCalls == 2
\* largest value of the millisecond clock
MaxClock == 1

\* --------------------------------------------------------------- sequences
RECURSIVE ConcatWithComma(_)
\* variant: Array.prototype.join() with its default separator
ConcatWithComma(ss) ==
  IF ss = <<>> THEN <<>>
  ELSE IF Len(ss) = 1 THEN Head(ss)
  ELSE Head(ss) \o <<",">> \o ConcatWithComma(Tail(ss))

RECURSIVE Concat(_)
\* Array.prototype.join('') over token strings
Concat(ss) == IF ss = <<>> THEN <<>> ELSE Head(ss) \o Concat(Tail(ss))

\* String.prototype.includes: needle occurs as a contiguous run of hay
Includes(hay, needle) ==
  \E i \in 0..(Len(hay) - Len(needle)) :
     \A j \in 1..Len(needle) : hay[i + j] = needle[j]

\* ---------------------------------------------------------- getResponseText
\* A part: {text?, thought?}; a candidate: {content?: {parts?}}.
TextPart(t) == [hasText |-> TRUE, text |-> t, thought |-> FALSE]
ThoughtPart(t) == [hasText |-> TRUE, text |-> t, thought |-> TRUE]
Candidate(ps) == [hasContent |-> TRUE, parts |-> ps]
NullText == [isNull |-> TRUE, text |-> <<>>]
SomeText(t) == [isNull |-> FALSE, text |-> t]

\* part.text is truthy: present and not the empty string
HasTruthyText(part) == part.hasText /\ part.text # <<>>

PartText(part) == part.text

\* variant: the thought test applied to every part, not to parts[0] only
getResponseTextAnyThought(response) ==
  IF Len(response.candidates) > 0
  THEN LET candidate == response.candidates[1] IN
       IF candidate.hasContent /\ Len(candidate.parts) > 0
       THEN IF \E i \in 1..Len(candidate.parts) : candidate.parts[i].thought
            THEN NullText
            ELSE LET kept == SelectSeq(candidate.parts, HasTruthyText) IN
                 SomeText(Concat([i \in 1..Len(kept) |-> PartText(kept[i])]))
       ELSE NullText
  ELSE NullText

getResponseText(response) ==
  IF Len(response.candidates) > 0
  THEN LET candidate == response.candidates[1] IN
       IF candidate.hasContent /\ Len(candidate.parts) > 0
       THEN IF candidate.parts[1].thought
            THEN NullText
            ELSE LET kept == SelectSeq(candidate.parts, HasTruthyText) IN
                 SomeText(Concat([i \in 1..Len(kept) |-> PartText(kept[i])]))
       ELSE NullText
  ELSE NullText

\* ----------------------------------------------------------- formatToolArgs
\* A value of the args record: type is what typeof tells (with arrays and
\* null kept apart), text the characters of a string, num the number (1/0 for
\* true/false), items the members of an object or the elements of an array.
VStr(t) == [type |-> "string", text |-> t, num |-> 0, items |-> <<>>]
VNum(n) == [type |-> "number", text |-> <<>>, num |-> n, items |-> <<>>]
VBool(b) ==
  [type |-> "boolean", text |-> <<>>, num |-> IF b THEN 1 ELSE 0, items |-> <<>>]
VNull == [type |-> "null", text |-> <<>>, num |-> 0, items |-> <<>>]
VArr(vs) ==
  [type |-> "array", text |-> <<>>, num |-> 0,
   items |-> [i \in 1..Len(vs) |-> [key |-> "", value |-> vs[i]]]]
VObj(kvs) == [type |-> "object", text |-> <<>>, num |-> 0, items |-> kvs]

RECURSIVE JoinWith(_, _)
\* Array.prototype.join(sep)
JoinWith(ss, sep) ==
  IF ss = <<>> THEN <<>>
  ELSE IF Len(ss) = 1 THEN Head(ss)
  ELSE Head(ss) \o sep \o JoinWith(Tail(ss), sep)

\* `${value}` for a value that is neither a string nor an object
NaturalText(v) ==
  CASE v.type = "number" -> <<ToString(v.num)>>
    [] v.type = "boolean" -> IF v.num = 1 THEN <<"true">> ELSE <<"false">>
    [] v.type = "null" -> <<"null">>
    [] OTHER -> v.text

\* JSON.stringify of a string or other scalar
StringifyScalar(v) ==
  IF v.type = "string" THEN <<"\"">> \o v.text \o <<"\"">> ELSE NaturalText(v)

\* JSON.stringify(value) of an array or object of scalars: no white space
Stringify(v) ==
  CASE v.type = "array" ->
         <<"[">>
           \o JoinWith([i \in 1..Len(v.items) |->
                          StringifyScalar(v.items[i].value)], <<",">>)
           \o <<"]">>
    [] v.type = "object" ->
         <<"{">>
           \o JoinWith([i \in 1..Len(v.items) |->
                          <<"\"", v.items[i].key, "\"", ":">>
                            \o StringifyScalar(v.items[i].value)], <<",">>)
           \o <<"}">>
    [] OTHER -> StringifyScalar(v)

\* variant: strings rendered like the other scalars, without quotes
FormatEntryUnquoted(key, value) ==
  IF value.type \in {"object", "array"}
  THEN <<key, ": ">> \o Stringify(value)
  ELSE <<key, ": ">> \o NaturalText(value)

\* the callback of Object.entries(args).map
FormatEntry(key, value) ==
  IF value.type = "string"
  THEN <<key, ": ", "\"">> \o value.text \o <<"\"">>
  ELSE IF value.type \in {"object", "array"}
  THEN <<key, ": ">> \o Stringify(value)
  ELSE <<key, ": ">> \o NaturalText(value)

\* args: [present, entries], entries in Object.entries order
formatToolArgs(args) ==
  IF ~args.present \/ Len(args.entries) = 0
  THEN <<"(no arguments)">>
  ELSE LET formattedArgs ==
             JoinWith([i \in 1..Len(args.entries) |->
                         FormatEntry(args.entries[i].key, args.entries[i].value)],
                      <<", ">>)
       IN <<"(">> \o formattedArgs \o <<")">>

\* ------------------------------------------------------------- environment
\* FunctionCall {id?, name}
FcLs == [name |-> "ls", hasId |-> FALSE, id |-> ""]
FcCat == [name |-> "cat", hasId |-> TRUE, id |-> "c1"]

\* Streamed response chunks the model client may yield.
ChunkText ==
  [candidates |-> <<Candidate(<<TextPart(<<"A">>), TextPart(<<"B">>)>>)>>,
   functionCalls |-> <<>>]
ChunkThoughtCall ==
  [candidates |-> <<Candidate(<<ThoughtPart(<<"T">>), TextPart(<<"A">>)>>)>>,
   functionCalls |-> <<FcLs>>]
ChunkCat ==
  [candidates |-> <<Candidate(<<TextPart(<<"C">>)>>)>>,
   functionCalls |-> <<FcCat>>]
ChunkCalls ==
  [candidates |-> <<>>, functionCalls |-> <<FcCat, FcLs>>]
Chunks == {ChunkText, ChunkThoughtCall, ChunkCat, ChunkCalls}

\* Elements of ToolCallResponse.responseParts: a bare string, a Part, or a
\* falsy entry.
RawString(t) == [type |-> "string", kind |-> "", text |-> t]
RawPart(k, t) == [type |-> "object", kind |-> k, text |-> t]
RawNull == [type |-> "null", kind |-> "", text |-> <<>>]
FnResponse == RawPart("functionResponse", <<"r">>)

NotFoundNeedle == <<"not", "found", "in", "registry">>
MsgNotFound == <<"Tool", "x", "not", "found", "in", "registry", ".">>
MsgDenied == <<"permission", "denied">>
MsgFileNotFound == <<"file", "not", "found">>

\* ToolCallResponse {error?: {message}, responseParts?: Part | Part[] | string}
Response(err, msg, shape, items) ==
  [hasError |-> err, message |-> msg, shape |-> shape, items |-> items]
RespOkSingle == Response(FALSE, <<>>, "single", <<FnResponse>>)
RespOkArray ==
  Response(FALSE, <<>>, "array", <<RawString(<<"s">>), RawNull, FnResponse>>)
RespOkNoParts == Response(FALSE, <<>>, "absent", <<>>)
RespNotFound == Response(TRUE, MsgNotFound, "array", <<FnResponse>>)
RespDenied == Response(TRUE, MsgDenied, "single", <<FnResponse>>)
RespFileNotFound == Response(TRUE, MsgFileNotFound, "absent", <<>>)
Responses ==
  {RespOkSingle, RespOkArray, RespOkNoParts, RespNotFound, RespDenied,
   RespFileNotFound}

\* the responseParts of a response, as the dispatch loop reads them
PartsOf(resp) == [seen |-> TRUE, shape |-> resp.shape, items |-> resp.items]
NothingHandled == [seen |-> FALSE, shape |-> "absent", items |-> <<>>]

\* no helper function is being applied
NoArg == [fun |-> "none"]

\* -------------------------------------------------------------------- state
VARIABLES
  pc,               \* where runNonInteractive is suspended
  terminal,         \* how the run ended ("none" while running)
  exitStatus,       \* process exit status once ended
  shutdownCount,    \* calls of shutdownTelemetry
  maxSessionTurns,  \* config.getMaxSessionTurns()
  telemetryInit,    \* isTelemetrySdkInitialized()
  epipeHandler,     \* the stdout 'error' listener is installed
  aborted,          \* abortController.signal.aborted
  clock,            \* Date.now()
  turnCount,
  currentMessages,  \* parts of currentMessages[0] (role user)
  functionCalls,
  toolResponseParts,
  callIdx,          \* position in functionCalls of the call in flight
  streamPasses,     \* sendMessageStream calls made
  dispatchRounds,   \* turns that entered the dispatch loop
  sent,             \* message of the latest sendMessageStream call
  chunksProcessed,  \* chunks of the current stream fully processed
  turnOutput,       \* model text written to stdout in the current turn
  wrote,            \* something was written to stdout
  dispatched,       \* ToolCallRequestInfo handed to executeToolCall, this round
  events,           \* displayToolCallInfo events, this round
  partCall,         \* for each result part of the round, its call's position
  raised,           \* an exception was raised
  lastError,        \* error of the latest ToolCallResponse: none, notFound, other
  role,             \* role of currentMessages[0]
  arrived,          \* function calls carried by the chunks of the current stream
  handled,          \* responseParts of the ToolCallResponse just handled
  fnArg,            \* argument a helper function is applied to
  fnResult          \* what the helper function returned

ctl == <<pc, terminal, exitStatus, shutdownCount>>
cfg == <<maxSessionTurns, telemetryInit>>
fn == <<fnArg, fnResult>>
env == <<epipeHandler, aborted, clock>>
loop ==
  <<turnCount, currentMessages, functionCalls, toolResponseParts, callIdx, role>>
pass == <<streamPasses, sent, chunksProcessed, turnOutput, arrived>>
round == <<dispatchRounds, dispatched, events, partCall>>
flags == <<raised, lastError, handled>>
vars == <<ctl, cfg, fn, env, loop, pass, round, flags, wrote>>

Init ==
  /\ pc = "initialize"
  /\ terminal = "none"
  /\ exitStatus = 0
  /\ shutdownCount = 0
  /\ maxSessionTurns \in 0..MaxSessionTurnsBound
  /\ telemetryInit \in BOOLEAN
  /\ epipeHandler = FALSE
  /\ aborted = FALSE
  /\ clock = 0
  /\ turnCount = 0
  /\ currentMessages = <<>>
  /\ functionCalls = <<>>
  /\ toolResponseParts = <<>>
  /\ callIdx = 0
  /\ streamPasses = 0
  /\ dispatchRounds = 0
  /\ sent = <<>>
  /\ chunksProcessed = 0
  /\ turnOutput = <<>>
  /\ wrote = FALSE
  /\ dispatched = <<>>
  /\ events = <<>>
  /\ partCall = <<>>
  /\ raised = FALSE
  /\ lastError = "none"
  /\ role = "none"
  /\ arrived = <<>>
  /\ handled = NothingHandled
  /\ fnArg = NoArg
  /\ fnResult = NoArg

\* ------------------------------------------------------------ loop helpers
\* the input string of the run
InputText == <<"q">>

\* a Part of a conversation turn
Part(k, t) == [kind |-> k, text |-> t]

\* variant: the comparison of the turn-limit test reversed
TurnLimitReversed(tc, maxTurns) == maxTurns > 0 /\ tc < 0

\* variant: the budget tested without the getMaxSessionTurns() > 0 guard
TurnLimitWithoutGuard(tc, maxTurns) == tc > maxTurns

\* variant: the budget compared with >= instead of >
TurnLimitOffByOne(tc, maxTurns) == maxTurns > 0 /\ tc >= maxTurns

\* config.getMaxSessionTurns() > 0 && turnCount > config.getMaxSessionTurns()
TurnLimitExceeded(tc, maxTurns) == maxTurns > 0 /\ tc > maxTurns

\* functionCalls.push(...resp.functionCalls)
Accumulate(calls, more) == calls \o more

\* functionCalls.length > 0
HasFunctionCalls(calls) == Len(calls) > 0

\* variant: the accumulated calls visited from the last to the first
NextCallReversed(calls, i) == calls[Len(calls) + 1 - i]

\* the element the for..of loop visits at position i
NextCall(calls, i) == calls[i]

\* fc.id ?? `${fc.name}-${Date.now()}`
makeCallId(fc, now) ==
  IF fc.hasId THEN <<fc.id>> ELSE <<fc.name, "-", ToString(now)>>

requestInfo(fc, now) ==
  [callId |-> makeCallId(fc, now), name |-> fc.name, isClientInitiated |-> FALSE]

\* variant: any "not found" message counts as a missing tool
isToolNotFoundLoose(message) == Includes(message, <<"not", "found">>)

\* variant: a needle that the registry's message never contains
isToolNotFoundMisspelt(message) ==
  Includes(message, <<"not", "found", "in", "the", "registry">>)

\* toolResponse.error.message.includes('not found in registry')
isToolNotFound(message) == Includes(message, NotFoundNeedle)

\* variant: the isToolNotFound guard of process.exit(1) left out
ExitsOnAnyToolError(resp) == resp.hasError

\* the branch that calls process.exit(1)
ExitsOnToolError(resp) == resp.hasError /\ ~isToolNotFound(resp.message)

RECURSIVE PushParts(_)
\* the loop over parts: a string becomes {text}, a truthy part is kept
PushParts(items) ==
  IF items = <<>> THEN <<>>
  ELSE LET part == Head(items) IN
       (IF part.type = "string" THEN <<Part("text", part.text)>>
        ELSE IF part.type = "object" THEN <<Part(part.kind, part.text)>>
        ELSE <<>>) \o PushParts(Tail(items))

\* variant: the responseParts of an error response left out
NormalizePartsOfSuccess(resp) ==
  IF resp.hasError \/ resp.shape = "absent" THEN <<>> ELSE PushParts(resp.items)

\* responseParts normalised to the parts pushed on toolResponseParts
NormalizeParts(resp) ==
  IF resp.shape = "absent" THEN <<>> ELSE PushParts(resp.items)

\* toolResponseParts.push(...): new elements go to the end
AppendParts(acc, more) == acc \o more

ToolEvent(status, fc) == [status |-> status, name |-> fc.name]

\* variant: a response without responseParts reported as an error
OutcomeStatusByParts(resp) ==
  IF resp.shape = "absent" THEN "error" ELSE "success"

\* if (toolResponse.error) 'error' else 'success'
OutcomeStatus(resp) == IF resp.hasError THEN "error" ELSE "success"

\* variant: the result parts added to the turn sent before
NextMessageWithHistory(previous, results) == previous \o results

\* currentMessages = [{ role: 'user', parts: toolResponseParts }]
NextMessage(previous, results) == results

\* ------------------------------------------------------------- ways to end
\* return: the finally block shuts telemetry down when it was initialized
Return(t) ==
  /\ pc' = "done"
  /\ terminal' = t
  /\ exitStatus' = 0
  /\ shutdownCount' = IF telemetryInit THEN shutdownCount + 1 ELSE shutdownCount

\* process.exit(code): the process ends there, no finally block runs
ProcessExit(code, t) ==
  /\ pc' = "done"
  /\ terminal' = t
  /\ exitStatus' = code
  /\ UNCHANGED shutdownCount

\* the catch block: report, process.exit(1)
CatchAll ==
  /\ ProcessExit(1, "Failed")
  /\ raised' = TRUE

\* an error raised before the try block rejects the promise of
\* runNonInteractive; an unhandled rejection ends Node with status 1
Reject ==
  /\ pc' = "done"
  /\ terminal' = "Rejected"
  /\ exitStatus' = 1
  /\ raised' = TRUE
  /\ UNCHANGED shutdownCount

Continue(p) ==
  /\ pc' = p
  /\ UNCHANGED <<terminal, exitStatus, shutdownCount>>

\* variant: functionCalls declared once, outside the loop
FreshCallsCarriedOver == functionCalls

\* const functionCalls: FunctionCall[] = []
FreshCalls == <<>>

\* one pass of while (true) up to the await of sendMessageStream; an
\* unlimited session is followed for MaxSessionTurnsBound passes; shown are
\* the events of the round that led here
LoopIteration(message, shown) ==
  /\ maxSessionTurns > 0 \/ turnCount < MaxSessionTurnsBound
  /\ turnCount' = turnCount + 1
  /\ toolResponseParts' = <<>>
  /\ callIdx' = 0
  /\ IF TurnLimitExceeded(turnCount + 1, maxSessionTurns)
     THEN /\ Return("TurnLimitReached")
          /\ events' = shown
          /\ UNCHANGED <<functionCalls, pass, dispatched>>
     ELSE /\ Continue("send")
          /\ functionCalls' = FreshCalls
          /\ streamPasses' = streamPasses + 1
          /\ sent' = message
          /\ chunksProcessed' = 0
          /\ turnOutput' = <<>>
          /\ arrived' = <<>>
          /\ dispatched' = <<>>
          /\ events' = <<>>

\* variant: the return after the final newline left out
NoFunctionCallsFallsThrough == LoopIteration(currentMessages, events)

\* the else branch of functionCalls.length > 0: a final newline, return
NoFunctionCalls ==
  /\ Return("Completed")
  /\ UNCHANGED <<turnCount, toolResponseParts, callIdx, functionCalls, pass,
                 dispatched, events>>

\* ------------------------------------------------------------------ actions
InitializeDone ==
  /\ pc = "initialize"
  /\ Continue("getToolRegistry")
  /\ epipeHandler' = TRUE
  /\ UNCHANGED <<cfg, fn, aborted, clock, loop, pass, round, flags, wrote>>

InitializeThrows ==
  /\ pc = "initialize"
  /\ Reject
  /\ UNCHANGED <<cfg, fn, env, loop, pass, round, lastError, handled, wrote>>

GetToolRegistryDone ==
  /\ pc = "getToolRegistry"
  /\ Continue("getChat")
  /\ UNCHANGED <<cfg, fn, env, loop, pass, round, flags, wrote>>

GetToolRegistryThrows ==
  /\ pc = "getToolRegistry"
  /\ Reject
  /\ UNCHANGED <<cfg, fn, env, loop, pass, round, lastError, handled, wrote>>

GetChatDone ==
  /\ pc = "getChat"
  /\ currentMessages' = <<Part("text", InputText)>>
  /\ role' = "user"
  /\ LoopIteration(<<Part("text", InputText)>>, <<>>)
  /\ UNCHANGED <<cfg, fn, env, dispatchRounds, partCall, flags, wrote>>

GetChatThrows ==
  /\ pc = "getChat"
  /\ Reject
  /\ UNCHANGED <<cfg, fn, env, loop, pass, round, lastError, handled, wrote>>

SendDone ==
  /\ pc = "send"
  /\ Continue("pull")
  /\ handled' = NothingHandled
  /\ UNCHANGED <<cfg, fn, env, loop, pass, round, raised, lastError, wrote>>

SendThrows ==
  /\ pc = "send"
  /\ CatchAll
  /\ UNCHANGED <<cfg, fn, env, loop, pass, round, lastError, handled, wrote>>

\* the stream yields a chunk: one pass of the for await body
Chunk(resp) ==
  /\ pc = "pull"
  /\ chunksProcessed < MaxChunks
  /\ Len(functionCalls) + Len(resp.functionCalls) <= MaxCalls
  /\ IF aborted
     THEN /\ Return("Cancelled")
          /\ UNCHANGED <<functionCalls, chunksProcessed, turnOutput, arrived, wrote>>
     ELSE LET textPart == getResponseText(resp)
              shown == ~textPart.isNull /\ textPart.text # <<>>
          IN /\ Continue("pull")
             /\ turnOutput' = IF shown THEN turnOutput \o textPart.text
                              ELSE turnOutput
             /\ wrote' = (wrote \/ shown)
             /\ functionCalls' = Accumulate(functionCalls, resp.functionCalls)
             /\ arrived' = arrived \o resp.functionCalls
             /\ chunksProcessed' = chunksProcessed + 1
  /\ UNCHANGED <<cfg, fn, env, turnCount, currentMessages, toolResponseParts,
                 callIdx, role, streamPasses, sent, round, flags>>

\* the stream is exhausted: dispatch the first call, or complete
StreamEnd ==
  /\ pc = "pull"
  /\ IF HasFunctionCalls(functionCalls)
     THEN LET fc == NextCall(functionCalls, 1) IN
          /\ Continue("tool")
          /\ toolResponseParts' = <<>>
          /\ partCall' = <<>>
          /\ callIdx' = 1
          /\ dispatchRounds' = dispatchRounds + 1
          /\ dispatched' = <<requestInfo(fc, clock)>>
          /\ events' = <<ToolEvent("start", fc)>>
          /\ UNCHANGED <<turnCount, functionCalls, pass>>
     ELSE /\ NoFunctionCalls
          /\ UNCHANGED <<dispatchRounds, partCall>>
  /\ wrote' = TRUE
  /\ UNCHANGED <<cfg, fn, env, currentMessages, role, flags>>

StreamThrows ==
  /\ pc = "pull"
  /\ CatchAll
  /\ UNCHANGED <<cfg, fn, env, loop, pass, round, lastError, handled, wrote>>

\* executeToolCall resolves: the rest of the for..of body, then the next
\* call, or the synthesized turn and the next loop iteration
ToolReturns(resp) ==
  /\ pc = "tool"
  /\ LET fc == NextCall(functionCalls, callIdx)
         outcome == ToolEvent(OutcomeStatus(resp), fc)
         parts == NormalizeParts(resp)
         results == AppendParts(toolResponseParts, parts)
         owners == AppendParts(partCall, [i \in 1..Len(parts) |-> callIdx])
     IN
     /\ lastError' =
          IF ~resp.hasError THEN "none"
          ELSE IF Includes(resp.message, NotFoundNeedle) THEN "notFound"
          ELSE "other"
     /\ handled' = PartsOf(resp)
     /\ IF ExitsOnToolError(resp)
        THEN /\ ProcessExit(1, "FatalTool")
             /\ events' = Append(events, outcome)
             /\ UNCHANGED <<loop, pass, dispatchRounds, dispatched, partCall>>
        ELSE IF callIdx < Len(functionCalls)
        THEN LET nxt == NextCall(functionCalls, callIdx + 1) IN
             /\ Continue("tool")
             /\ toolResponseParts' = results
             /\ partCall' = owners
             /\ callIdx' = callIdx + 1
             /\ dispatched' = Append(dispatched, requestInfo(nxt, clock))
             /\ events' = events \o <<outcome, ToolEvent("start", nxt)>>
             /\ UNCHANGED <<turnCount, currentMessages, functionCalls, role,
                            pass, dispatchRounds>>
        ELSE /\ currentMessages' = NextMessage(currentMessages, results)
             /\ role' = "user"
             /\ partCall' = owners
             /\ LoopIteration(NextMessage(currentMessages, results),
                              Append(events, outcome))
             /\ UNCHANGED dispatchRounds
  /\ UNCHANGED <<cfg, fn, env, raised, wrote>>

ToolThrows ==
  /\ pc = "tool"
  /\ CatchAll
  /\ UNCHANGED <<cfg, fn, env, loop, pass, round, lastError, handled, wrote>>

\* the cancellation signal becomes set (the signal is shared with the model
\* client and the dispatcher; the driver only reads it)
Abort ==
  /\ pc \in {"send", "pull", "tool"}
  /\ ~aborted
  /\ aborted' = TRUE
  /\ UNCHANGED <<ctl, cfg, fn, epipeHandler, clock, loop, pass, round, flags, wrote>>

\* time passes while a tool call is in flight
Tick ==
  /\ pc = "tool"
  /\ clock < MaxClock
  /\ clock' = clock + 1
  /\ UNCHANGED <<ctl, cfg, fn, epipeHandler, aborted, loop, pass, round, flags, wrote>>

\* process.stdout emits 'error': the listener exits with 0 on EPIPE only
StdoutError(code) ==
  /\ pc # "done"
  /\ epipeHandler
  /\ wrote
  /\ IF code = "EPIPE"
     THEN ProcessExit(0, "PipeClosed")
     ELSE UNCHANGED ctl
  /\ UNCHANGED <<cfg, fn, env, loop, pass, round, flags, wrote>>

Next ==
  \/ InitializeDone
  \/ InitializeThrows
  \/ GetToolRegistryDone
  \/ GetToolRegistryThrows
  \/ GetChatDone
  \/ GetChatThrows
  \/ SendDone
  \/ SendThrows
  \/ \E resp \in Chunks : Chunk(resp)
  \/ StreamEnd
  \/ StreamThrows
  \/ \E resp \in Responses : ToolReturns(resp)
  \/ ToolThrows
  \/ Abort
  \/ Tick
  \/ \E code \in {"EPIPE", "EIO"} : StdoutError(code)

Spec == Init /\ [][Next]_vars

\* a pending await of the driver settles and the driver runs on to its next
\* suspension point
Resume ==
  \/ InitializeDone
  \/ InitializeThrows
  \/ GetToolRegistryDone
  \/ GetToolRegistryThrows
  \/ GetChatDone
  \/ GetChatThrows
  \/ SendDone
  \/ SendThrows
  \/ \E resp \in Chunks : Chunk(resp)
  \/ StreamEnd
  \/ StreamThrows
  \/ \E resp \in Responses : ToolReturns(resp)
  \/ ToolThrows

\* every promise the driver awaits settles: the client answers, the stream
\* ends, the dispatcher returns
SpecLive == Init /\ [][Next]_vars /\ WF_vars(Resume)

TypeOK ==
  /\ pc \in {"initialize", "getToolRegistry", "getChat", "send", "pull", "tool", "done"}
  /\ terminal \in {"none", "Completed", "TurnLimitReached", "Cancelled",
                   "FatalTool", "Failed", "Rejected", "PipeClosed"}
  /\ exitStatus \in {0, 1}
  /\ turnCount \in 0..(MaxSessionTurnsBound + 1)
  /\ (pc = "done") = (terminal # "none")

\* ------------------------------------------------- helpers applied on their own
\* the driver is not running: runNonInteractive has not been called
DriverIdle ==
  /\ terminal = "none"
  /\ exitStatus = 0
  /\ shutdownCount = 0
  /\ maxSessionTurns = 0
  /\ telemetryInit = FALSE
  /\ epipeHandler = FALSE
  /\ aborted = FALSE
  /\ clock = 0
  /\ turnCount = 0
  /\ currentMessages = <<>>
  /\ functionCalls = <<>>
  /\ toolResponseParts = <<>>
  /\ callIdx = 0
  /\ streamPasses = 0
  /\ dispatchRounds = 0
  /\ sent = <<>>
  /\ chunksProcessed = 0
  /\ turnOutput = <<>>
  /\ wrote = FALSE
  /\ dispatched = <<>>
  /\ events = <<>>
  /\ partCall = <<>>
  /\ raised = FALSE
  /\ lastError = "none"
  /\ role = "none"
  /\ arrived = <<>>
  /\ handled = NothingHandled

driver == <<cfg, env, loop, pass, round, flags, wrote, terminal, exitStatus,
            shutdownCount>>

SeqsUpTo(S, n) == UNION {[1..k -> S] : k \in 0..n}

\* parts of a candidate's content that getResponseText is applied to
MaxParts == 2

\* a part without text (a functionCall part, say), with or without the
\* thought flag
NoTextPart(th) == [hasText |-> FALSE, text |-> <<>>, thought |-> th]

SampleParts ==
  {TextPart(<<"A">>), TextPart(<<"B">>), TextPart(<<>>), ThoughtPart(<<"T">>),
   NoTextPart(FALSE), NoTextPart(TRUE)}

\* a candidate without content
NoContent == [hasContent |-> FALSE, parts |-> <<>>]

FirstCandidates ==
  {NoContent} \cup {Candidate(ps) : ps \in SeqsUpTo(SampleParts, MaxParts)}

\* candidates that may follow the first one; their texts occur in no first
\* candidate
LaterCandidates ==
  {NoContent, Candidate(<<TextPart(<<"Z">>)>>), Candidate(<<ThoughtPart(<<"Y">>)>>)}

SampleResponses ==
  {[candidates |-> <<>>]}
    \cup {[candidates |-> <<c>>] : c \in FirstCandidates}
    \cup {[candidates |-> <<c, d>>] : c \in FirstCandidates, d \in LaterCandidates}

InitText ==
  /\ pc = "getResponseText"
  /\ fnArg \in SampleResponses
  /\ fnResult = NoArg
  /\ DriverIdle

\* const text = getResponseText(resp)
ApplyGetResponseText ==
  /\ pc = "getResponseText"
  /\ fnResult' = getResponseText(fnArg)
  /\ pc' = "returned"
  /\ UNCHANGED <<fnArg, driver>>

NextText == ApplyGetResponseText

SpecText == InitText /\ [][NextText]_vars

\* entries of the args record that formatToolArgs is applied to
MaxArgs == 2

SampleKeys == {"path", "n", "opts"}

SampleValues ==
  {VStr(<<"/a">>), VStr(<<>>), VNum(7), VBool(TRUE), VNull,
   VArr(<<VNum(1), VStr(<<"x">>)>>),
   VObj(<<[key |-> "k", value |-> VStr(<<"x">>)],
          [key |-> "m", value |-> VBool(FALSE)]>>)}

\* an object has each key once
DistinctKeys(entries) ==
  \A i, j \in 1..Len(entries) : i # j => entries[i].key # entries[j].key

SampleArgs ==
  {[present |-> FALSE, entries |-> <<>>]}
    \cup {[present |-> TRUE, entries |-> es] :
            es \in {s \in SeqsUpTo([key : SampleKeys, value : SampleValues],
                                   MaxArgs) : DistinctKeys(s)}}

InitArgs ==
  /\ pc = "formatToolArgs"
  /\ fnArg \in SampleArgs
  /\ fnResult = NoArg
  /\ DriverIdle

\* const argsStr = formatToolArgs(args)
ApplyFormatToolArgs ==
  /\ pc = "formatToolArgs"
  /\ fnResult' = formatToolArgs(fnArg)
  /\ pc' = "returned"
  /\ UNCHANGED <<fnArg, driver>>

NextArgs == ApplyFormatToolArgs

SpecArgs == InitArgs /\ [][NextArgs]_vars

\* ------------------------------------------------------------------- claims
IsPrefix(a, b) == Len(a) <= Len(b) /\ SubSeq(b, 1, Len(a)) = a

NonDecreasing(s) == \A i, j \in 1..Len(s) : i < j => s[i] <= s[j]

\* the run ended without an exception, a fatal tool error, a cancellation
\* or a closed pipe
EndedInLoop ==
  /\ pc = "done"
  /\ ~raised
  /\ lastError # "other"
  /\ terminal \notin {"Cancelled", "PipeClosed"}

\* C1: with maxSessionTurns M > 0 at most M Streaming passes are ever
\* started; a run in which every pass requested a tool call ends in
\* TurnLimitReached, and TurnLimitReached is reached after exactly M passes
\* and M dispatch rounds with exit status 0.
C1_TurnBudget ==
  /\ maxSessionTurns > 0 => streamPasses <= maxSessionTurns
  /\ terminal = "TurnLimitReached" =>
       /\ maxSessionTurns > 0
       /\ streamPasses = maxSessionTurns
       /\ dispatchRounds = maxSessionTurns
       /\ turnCount = maxSessionTurns + 1
       /\ exitStatus = 0
  /\ (EndedInLoop /\ maxSessionTurns > 0 /\ dispatchRounds = streamPasses) =>
       terminal = "TurnLimitReached"

C1_Witness ==
  /\ terminal = "TurnLimitReached"
  /\ maxSessionTurns = 2
  /\ streamPasses = 2
  /\ dispatchRounds = 2

\* the step in which a stream is exhausted with no accumulated call
EndsWithoutCalls ==
  /\ pc = "pull"
  /\ pc' # "pull"
  /\ Len(functionCalls) = 0
  /\ ~raised'
  /\ terminal' \notin {"Cancelled", "PipeClosed"}

\* C2: a Streaming pass that ends with zero accumulated function calls
\* leads to Completed with exit status 0, with no dispatcher invocation for
\* that turn and no further Streaming pass; a run whose first response has
\* no function calls makes exactly one Streaming pass.
C2_Completion ==
  /\ [][EndsWithoutCalls =>
          /\ terminal' = "Completed"
          /\ exitStatus' = 0
          /\ streamPasses' = streamPasses
          /\ dispatchRounds' = dispatchRounds
          /\ dispatched' = <<>>]_vars
  /\ [](terminal = "Completed" =>
          /\ Len(functionCalls) = 0
          /\ Len(dispatched) = 0
          /\ turnCount = streamPasses
          /\ dispatchRounds = streamPasses - 1)

C2_Witness ==
  /\ terminal = "Completed"
  /\ exitStatus = 0
  /\ streamPasses = 1
  /\ dispatchRounds = 0
  /\ chunksProcessed = 2

\* C3: once the dispatcher has returned an error other than not-found the
\* process has ended with a non-zero status, the later calls of the turn
\* were not dispatched, and no dispatcher invocation or Streaming pass
\* follows.
C3_FatalToolError ==
  /\ [](lastError = "other" =>
          /\ pc = "done"
          /\ terminal = "FatalTool"
          /\ exitStatus # 0
          /\ Len(dispatched) = callIdx)
  /\ [][lastError = "other" =>
          (dispatched' = dispatched /\ streamPasses' = streamPasses)]_vars

C3_Witness ==
  /\ terminal = "FatalTool"
  /\ callIdx = 1
  /\ Len(functionCalls) = 2
  /\ Len(dispatched) = 1

\* the step in which the dispatcher returns a not-found error
ReturnsNotFound ==
  /\ pc = "tool"
  /\ pc' # "tool" \/ callIdx' # callIdx
  /\ lastError' = "notFound"
  /\ ~raised'
  /\ terminal' # "PipeClosed"

\* C4: a dispatcher response with a not-found error does not end the
\* process: the next accumulated call, if any, is dispatched; after the last
\* call the result turn is synthesized from the accumulated parts and the
\* next Streaming pass starts, unless the turn budget is used up.
C4_NotFoundRecoverable ==
  [][ReturnsNotFound =>
       /\ terminal' \in {"none", "TurnLimitReached"}
       /\ exitStatus' = 0
       /\ IF callIdx < Len(functionCalls)
          THEN /\ pc' = "tool"
               /\ callIdx' = callIdx + 1
               /\ Len(dispatched') = callIdx + 1
               /\ dispatched'[callIdx + 1].name = functionCalls[callIdx + 1].name
               /\ IsPrefix(toolResponseParts, toolResponseParts')
          ELSE /\ IsPrefix(toolResponseParts, currentMessages')
               /\ \/ /\ pc' = "send"
                     /\ streamPasses' = streamPasses + 1
                     /\ sent' = currentMessages'
                  \/ /\ terminal' = "TurnLimitReached"
                     /\ turnCount' > maxSessionTurns]_vars

C4_Witness ==
  /\ pc = "tool"
  /\ callIdx = 2
  /\ Len(dispatched) = 2
  /\ lastError = "notFound"

\* C5 (as claimed): while the cancellation signal is set during a Streaming
\* pass, no further chunk is processed, no text is written, no call is
\* accumulated and no tool is dispatched for that turn, also when the
\* signal is set after the last chunk of the stream.
C5_CancelledBeforeDispatch ==
  [][(aborted /\ pc = "pull") =>
       /\ chunksProcessed' = chunksProcessed
       /\ turnOutput' = turnOutput
       /\ functionCalls' = functionCalls
       /\ dispatched' = dispatched]_vars

\* the requests of the round are those of the accumulated calls, in order
DispatchedInOrder ==
  /\ Len(dispatched) = callIdx
  /\ callIdx <= Len(functionCalls)
  /\ \A i \in 1..Len(dispatched) :
       /\ dispatched[i].name = functionCalls[i].name
       /\ functionCalls[i].hasId => dispatched[i].callId = <<functionCalls[i].id>>

\* C6: the calls of a turn are accumulated in arrival order, the dispatcher
\* is invoked on them in that order, one after the other up to the last,
\* and the result parts of the turn are ordered by the call they come from.
C6_SequentialOrdering ==
  /\ []((pc = "tool" \/ terminal = "FatalTool") => DispatchedInOrder)
  /\ [](pc = "tool" =>
          /\ Len(partCall) = Len(toolResponseParts)
          /\ \A i \in 1..Len(partCall) : partCall[i] \in 1..callIdx)
  /\ [](NonDecreasing(partCall))
  /\ [][(pc = "pull" /\ pc' = "pull") => IsPrefix(functionCalls, functionCalls')]_vars
  /\ [][(pc = "tool" /\ (pc' = "send" \/ terminal' = "TurnLimitReached")) =>
          /\ callIdx = Len(functionCalls)
          /\ IsPrefix(toolResponseParts, currentMessages')
          /\ Len(partCall') = Len(currentMessages')]_vars

C6_Witness ==
  /\ pc = "send"
  /\ turnCount = 2
  /\ Len(currentMessages) = 3
  /\ partCall = <<1, 2, 2>>

\* C7 (as claimed): a run with telemetry initialized that ends in Completed,
\* TurnLimitReached, Cancelled, by a fatal tool error or in Failed has shut
\* telemetry down exactly once.
C7_TeardownOnce ==
  (telemetryInit /\ terminal \in {"Completed", "TurnLimitReached", "Cancelled",
                                  "FatalTool", "Failed"})
    => shutdownCount = 1

\* C8 (as claimed): every raised error is caught by the top-level catch and
\* ends the run as Failed with non-zero status; none leaves
\* runNonInteractive as a rejection.
C8_CaughtAtTopLevel ==
  raised => (terminal = "Failed" /\ exitStatus # 0)

\* C9: a finished run has a non-zero exit status exactly when the
\* dispatcher returned an error other than not-found or an exception was
\* raised; Completed, TurnLimitReached, Cancelled and a closed pipe have
\* status 0.
C9_ExitStatus ==
  pc = "done" =>
    /\ (exitStatus # 0) <=> (lastError = "other" \/ raised)
    /\ terminal \in {"Completed", "TurnLimitReached", "Cancelled", "PipeClosed"}
         => exitStatus = 0

C9_Witness ==
  /\ terminal = "TurnLimitReached"
  /\ lastError = "notFound"
  /\ exitStatus = 0

\* C10 (as claimed): once cancellation is requested no sendMessageStream
\* call is started any more.
C10_NoTurnAfterCancel ==
  [][aborted => streamPasses' = streamPasses]_vars

\* C11: within a turn, the callIds built for the function calls that carry no
\* id are pairwise distinct, also when two of them name the same tool and are
\* dispatched within the same millisecond.
C11_DistinctCallIds ==
  (pc = "tool" \/ terminal = "FatalTool") =>
    \A i, j \in 1..Len(dispatched) :
      (i < j /\ ~functionCalls[i].hasId /\ ~functionCalls[j].hasId)
        => dispatched[i].callId # dispatched[j].callId

\* C12: with maxSessionTurns = 0 the driver never reaches TurnLimitReached:
\* every loop iteration goes on to a streaming pass, and the loop is left only
\* by Completed, Cancelled, a fatal tool error or Failed.
C12_UnlimitedTurns ==
  maxSessionTurns = 0 =>
    /\ terminal # "TurnLimitReached"
    /\ streamPasses = turnCount
    /\ (pc = "done" /\ turnCount > 0 /\ terminal # "PipeClosed")
         => terminal \in {"Completed", "Cancelled", "FatalTool", "Failed"}

C12_Witness ==
  maxSessionTurns = 0 /\ pc = "send" /\ turnCount = 2 /\ streamPasses = 2

\* the parts of the first candidate, <<>> when there is none
FirstParts(response) ==
  IF Len(response.candidates) > 0 /\ response.candidates[1].hasContent
  THEN response.candidates[1].parts
  ELSE <<>>

\* C13: when parts[0] of the first candidate is marked as a thought,
\* getResponseText returns null whatever the other parts hold; a thought mark
\* on a later part does not suppress the output, and only the first candidate
\* is consulted.
C13_ThoughtSuppression ==
  pc = "returned" =>
    LET parts == FirstParts(fnArg) IN
    /\ (Len(parts) > 0 /\ parts[1].thought) => fnResult.isNull
    /\ (Len(parts) > 0 /\ ~parts[1].thought) =>
         /\ ~fnResult.isNull
         /\ \A i \in 2..Len(parts) :
              (parts[i].thought /\ parts[i].hasText)
                => Includes(fnResult.text, parts[i].text)
    /\ Len(parts) = 0 => fnResult.isNull
    /\ \A i \in 2..Len(fnArg.candidates) :
         \A j \in 1..Len(fnArg.candidates[i].parts) :
            fnArg.candidates[i].parts[j].text # <<>>
              => ~Includes(fnResult.text, fnArg.candidates[i].parts[j].text)

C13_Witness ==
  /\ pc = "returned"
  /\ Len(fnArg.candidates) = 2
  /\ fnArg.candidates[1].parts = <<ThoughtPart(<<"T">>), TextPart(<<"A">>)>>
  /\ fnArg.candidates[2].parts = <<TextPart(<<"Z">>)>>
  /\ fnResult.isNull

RECURSIVE TextsInOrder(_, _)
\* the texts of parts[1..n], one after the other
TextsInOrder(parts, n) ==
  IF n = 0 THEN <<>>
  ELSE TextsInOrder(parts, n - 1)
         \o (IF parts[n].hasText THEN parts[n].text ELSE <<>>)

\* C14: when the first candidate has a non-empty parts list that does not
\* start with a thought, getResponseText returns the texts of the parts that
\* have one, concatenated in part order without separator; it returns null
\* when there is no candidate, or the first candidate has no content or no
\* parts.
C14_Concatenation ==
  pc = "returned" =>
    LET parts == FirstParts(fnArg) IN
    /\ (Len(parts) > 0 /\ ~parts[1].thought) =>
         /\ ~fnResult.isNull
         /\ fnResult.text = TextsInOrder(parts, Len(parts))
    /\ ( \/ Len(fnArg.candidates) = 0
         \/ ~fnArg.candidates[1].hasContent
         \/ Len(fnArg.candidates[1].parts) = 0 ) => fnResult.isNull

C14_Witness ==
  /\ pc = "returned"
  /\ FirstParts(fnArg) = <<TextPart(<<"A">>), TextPart(<<"B">>)>>
  /\ fnResult = SomeText(<<"A", "B">>)

\* "key: value" as the formatter is to render it
EntryAsText(e) ==
  <<e.key, ": ">>
    \o (CASE e.value.type = "string" -> <<"\"">> \o e.value.text \o <<"\"">>
          [] e.value.type \in {"object", "array"} -> Stringify(e.value)
          [] e.value.type = "number" -> <<ToString(e.value.num)>>
          [] e.value.type = "boolean" ->
               <<IF e.value.num = 1 THEN "true" ELSE "false">>
          [] OTHER -> <<"null">>)

RECURSIVE EntriesJoined(_, _)
\* the first n entries, separated by ", "
EntriesJoined(es, n) ==
  IF n = 1 THEN EntryAsText(es[1])
  ELSE EntriesJoined(es, n - 1) \o <<", ">> \o EntryAsText(es[n])

\* C15: formatToolArgs returns "(no arguments)" for an absent or empty record,
\* and otherwise "(" + the entries joined by ", " + ")" in iteration order,
\* each entry being "key: value" with strings in double quotes, objects and
\* arrays as compact JSON and other scalars in their textual form.
C15_Formatter ==
  pc = "returned" =>
    IF ~fnArg.present \/ Len(fnArg.entries) = 0
    THEN fnResult = <<"(no arguments)">>
    ELSE /\ fnResult =
              <<"(">> \o EntriesJoined(fnArg.entries, Len(fnArg.entries)) \o <<")">>
         /\ fnArg.entries = <<[key |-> "path", value |-> VStr(<<"/a">>)]>>
              => fnResult = <<"(", "path", ": ", "\"", "/a", "\"", ")">>

C15_Witness ==
  /\ pc = "returned"
  /\ Len(fnArg.entries) = 2
  /\ fnArg.entries[1] = [key |-> "path", value |-> VStr(<<"/a">>)]
  /\ fnArg.entries[2].value.type = "object"
  /\ fnResult =
       <<"(", "path", ": ", "\"", "/a", "\"", ", ", "opts", ": ",
         "{", "\"", "k", "\"", ":", "\"", "x", "\"", ",",
         "\"", "m", "\"", ":", "false", "}", ")">>

\* success and error events emitted so far in the dispatch round
OutcomeCount ==
  Cardinality({i \in 1..Len(events) : events[i].status \in {"success", "error"}})

\* C16: dispatch is strictly sequential with one lifecycle pair per call: at
\* most one dispatcher invocation is in flight; each dispatched call has one
\* start event before its invocation and, once its response is there, exactly
\* one success or error event before the start event of the next call.
C16_SequentialDispatch ==
  /\ Len(dispatched) - OutcomeCount \in {0, 1}
  /\ pc = "tool" => Len(dispatched) - OutcomeCount = 1
  /\ Len(events) \in {2 * Len(dispatched) - 1, 2 * Len(dispatched)} \cup
                     (IF Len(dispatched) = 0 THEN {0} ELSE {})
  /\ \A k \in 1..Len(dispatched) :
       /\ events[2 * k - 1] = [status |-> "start", name |-> dispatched[k].name]
       /\ 2 * k <= Len(events) =>
            /\ events[2 * k].status \in {"success", "error"}
            /\ events[2 * k].name = dispatched[k].name
  /\ (OutcomeCount > 0 /\ (pc = "tool" \/ terminal \in {"FatalTool", "TurnLimitReached"}))
       => (events[2 * OutcomeCount].status = "error") = (lastError # "none")

C16_Witness ==
  /\ pc = "tool"
  /\ Len(dispatched) = 2
  /\ Len(events) = 3
  /\ events[2].status = "error"
  /\ events[3].status = "start"

\* a dispatcher response has been handled without ending the process
HandlesResponse ==
  /\ pc = "tool"
  /\ pc' # "tool" \/ callIdx' # callIdx
  /\ ~raised'
  /\ terminal' \notin {"PipeClosed", "FatalTool"}

\* an element of responseParts that is a string or a part
IsStringOrPart(item) == item.type \in {"string", "object"}

\* responseParts as a sequence of parts, bare strings wrapped as text parts
AsParts(h) ==
  IF h.shape = "absent" THEN <<>>
  ELSE LET given == SelectSeq(h.items, IsStringOrPart) IN
       [i \in 1..Len(given) |->
          IF given[i].type = "string"
          THEN [kind |-> "text", text |-> given[i].text]
          ELSE [kind |-> given[i].kind, text |-> given[i].text]]

\* C17: for every dispatcher response that does not end the process (success
\* or not-found error), its responseParts, as a sequence with bare strings
\* wrapped as text parts, are appended to the turn's result parts; a response
\* without responseParts appends nothing; the parts of a not-found error
\* response are sent to the model in the next turn.
C17_ResultParts ==
  [][HandlesResponse =>
       /\ handled'.seen
       /\ lastError' \in {"none", "notFound"}
       /\ IF callIdx < Len(functionCalls)
          THEN toolResponseParts' = toolResponseParts \o AsParts(handled')
          ELSE /\ currentMessages' = toolResponseParts \o AsParts(handled')
               /\ pc' = "send" => sent' = currentMessages'
       /\ handled'.shape = "absent" =>
            (IF callIdx < Len(functionCalls)
             THEN toolResponseParts' = toolResponseParts
             ELSE currentMessages' = toolResponseParts)]_vars

C17_Witness ==
  /\ pc = "send"
  /\ turnCount = 2
  /\ lastError = "notFound"
  /\ handled = PartsOf(RespNotFound)
  /\ sent = <<Part("functionResponse", <<"r">>), Part("functionResponse", <<"r">>)>>

\* C18: within a turn no dispatcher invocation happens before the response
\* stream has been consumed to its end; the calls dispatched in the turn are
\* exactly the function calls carried by the chunks of that stream, none
\* dropped, duplicated or carried over from an earlier turn, and dispatching
\* is entered only when there is at least one.
C18_DispatchAfterStream ==
  /\ [](pc \in {"send", "pull"} => dispatched = <<>>)
  /\ [](pc = "tool" => Len(arrived) > 0)
  /\ []((pc = "tool" \/ terminal \in {"FatalTool", "TurnLimitReached"}) =>
          /\ Len(dispatched) <= Len(arrived)
          /\ \A i \in 1..Len(dispatched) :
               /\ dispatched[i].name = arrived[i].name
               /\ arrived[i].hasId => dispatched[i].callId = <<arrived[i].id>>)
  /\ [][(pc = "pull" /\ pc' = "tool") =>
          (arrived' = arrived /\ chunksProcessed' = chunksProcessed)]_vars
  /\ [][(pc = "tool" /\ (pc' = "send" \/ terminal' = "TurnLimitReached")) =>
          Len(dispatched) = Len(arrived)]_vars

C18_Witness ==
  /\ pc = "tool"
  /\ turnCount = 2
  /\ chunksProcessed = 2
  /\ Len(arrived) = 2
  /\ Len(dispatched) = 2
  /\ arrived[1].name # arrived[2].name

\* C19: with maxSessionTurns > 0, finite streams and a dispatcher that
\* returns, every run that has entered the loop reaches a terminal state
\* after at most maxSessionTurns streaming passes; it does not loop forever.
C19_Termination ==
  /\ (maxSessionTurns > 0 /\ pc \in {"send", "pull", "tool"}) ~> (pc = "done")
  /\ [](maxSessionTurns > 0 => streamPasses <= maxSessionTurns)
  /\ []((maxSessionTurns > 0 /\ pc = "done" /\ turnCount > 0) =>
          terminal \in {"Completed", "TurnLimitReached", "Cancelled",
                        "FatalTool", "Failed", "PipeClosed"})

C19_Witness ==
  /\ pc = "done"
  /\ maxSessionTurns = 1
  /\ terminal = "TurnLimitReached"
  /\ streamPasses = 1
  /\ lastError = "none"

\* C20: the message of the first streaming pass is one text part holding the
\* input; the message of every later pass is exactly the result parts
\* accumulated from the calls dispatched in the turn just before, never the
\* input or the result parts of earlier turns again; every turn the driver
\* builds has role user.
C20_TurnContent ==
  /\ [](streamPasses = 1 => sent = <<[kind |-> "text", text |-> InputText]>>)
  /\ [](streamPasses > 1 =>
          \A i \in 1..Len(sent) : sent[i] # [kind |-> "text", text |-> InputText])
  /\ [](streamPasses >= 1 => role = "user")
  /\ [][(pc = "tool" /\ pc' = "send") =>
          /\ streamPasses' = streamPasses + 1
          /\ sent' = toolResponseParts \o AsParts(handled')
          /\ Len(sent') = Len(partCall')
          /\ \A i \in 1..Len(partCall') : partCall'[i] \in 1..Len(dispatched)
          /\ role' = "user"]_vars
  /\ [][streamPasses' = streamPasses => sent' = sent]_vars

C20_Witness ==
  /\ pc = "pull"
  /\ streamPasses = 2
  /\ role = "user"
  /\ sent = <<[kind |-> "text", text |-> <<"s">>],
              [kind |-> "functionResponse", text |-> <<"r">>]>>

====
